---- MODULE Spec2Model ----
(***************************************************************************)
(* A model of MemoryManager (src/unnamed/part_000, lines 19..522): the     *)
(* in-process Map, the Redis short-term tier, the Supabase long-term tier  *)
(* and the semantic entries, with remember / recall / learn / forget /     *)
(* close and the degraded-mode expiry timers.                              *)
(*                                                                         *)
(* JavaScript values are modelled as follows.                              *)
(*   - a string is a sequence of one-character strings, so that            *)
(*     startsWith and includes are computed on the real key text;          *)
(*   - an optional value is Undefined, Null or Some(x);                    *)
(*   - a Date is Date(ms); the text JSON.stringify makes of it is          *)
(*     IsoString(ms): JSON.parse gives the text back, not a Date;          *)
(*   - a confidence is a number of tenths (3 is 0.3, 10 is 1.0).           *)
(***************************************************************************)
EXTENDS Integers, Sequences, FiniteSets, TLC

\* ------------------------------------------------------------------ bounds
MaxWrites == 2     \* remember and learn calls in one run
MaxFailures == 1   \* backend requests of remember and learn that fail in one run
MaxTicks == 2      \* clock advances in one run
TtlSeconds == 1    \* config.shortTerm.ttl of the modelled managers
MaxItems == 1      \* config.shortTerm.maxItems of the modelled managers

\* --------------------------------------------------------- program constants
DefaultLimit == 10        \* query.limit || 10
MsPerSecond == 1000       \* ttl * 1000

\* ------------------------------------------------------------------ values
Undefined == <<"undefined">>
Null == <<"null">>
Some(x) == <<"some", x>>
IsSome(o) == o[1] = "some"
Val(o) == o[2]

Date(ms) == <<"Date", ms>>
IsoString(ms) == <<"ISO", ms>>
IsDate(d) == d[1] = "Date"

\* JavaScript truthiness of an optional value whose payload is never falsy
\* (a type name, a Date, an array) and of a number or string payload.
Truthy(o) == IsSome(o)
TruthyNumber(o) == IsSome(o) /\ Val(o) # 0
TruthyString(o) == IsSome(o) /\ Val(o) # <<>>

\* x < y of JavaScript on timestamps: two Dates compare by their time; a
\* string or undefined against a Date converts to NaN and compares false.
DateLess(x, y) == IsDate(x) /\ IsDate(y) /\ x[2] < y[2]

\* x < y of JavaScript on an optional number against a number: undefined is
\* NaN (false), null is 0.
NumberLess(o, n) ==
  CASE IsSome(o) -> Val(o) < n
    [] o = Null -> 0 < n
    [] OTHER -> FALSE

\* ----------------------------------------------------------------- strings
StartsWith(s, p) == Len(p) <= Len(s) /\ SubSeq(s, 1, Len(p)) = p
Includes(s, p) == \E i \in 0..(Len(s) - Len(p)) : SubSeq(s, i + 1, i + Len(p)) = p

Digit(d) == <<"0", "1", "2", "3", "4", "5", "6", "7", "8", "9">>[d + 1]
RECURSIVE NumberToString(_)
NumberToString(n) ==
  IF n < 10 THEN <<Digit(n)>> ELSE NumberToString(n \div 10) \o <<Digit(n % 10)>>

Colon == <<":">>
MemoryPrefix == <<"m", "e", "m", "o", "r", "y", ":">>
LongTermPrefix == <<"l", "o", "n", "g", "t", "e", "r", "m", ":">>
SemanticPrefix == <<"s", "e", "m", "a", "n", "t", "i", "c", ":">>
PatternPrefix == <<"p", "a", "t", "t", "e", "r", "n", ":">>
ListPrefix == <<"m", "e", "m", "o", "r", "i", "e", "s", ":">>

MemoryKey(agentId, id) == MemoryPrefix \o agentId \o Colon \o id
LongTermKey(agentId, id) == LongTermPrefix \o agentId \o Colon \o id
SemanticKey(agentId, id) == SemanticPrefix \o agentId \o Colon \o id
PatternKey(agentId, pattern) == PatternPrefix \o agentId \o Colon \o pattern
ListKey(agentId) == ListPrefix \o agentId

\* ------------------------------------------------------------------ inputs
\* The clock advances by half the time to live.
TickMs == (TtlSeconds * MsPerSecond) \div 2

AgentIds == {<<"a">>, <<"a", ":", "b">>}
MemoryTypes == {"transaction", "decision", "pattern", "outcome"}
\* What Math.random().toString(36).substr(2, 9) may return, cut to two texts.
RandomTexts == {<<"x">>, <<"y">>}

NoContent ==
  [test |-> Undefined, transactionId |-> Undefined, success |-> Undefined,
   pattern |-> Undefined]
TestContent(t) == [NoContent EXCEPT !.test = Some(t)]

\* The payloads remember is called with (Omit<Memory, 'id' | 'timestamp'>).
Payloads ==
  { [type |-> "transaction", content |-> TestContent("data1"),
     confidence |-> Some(10), embedding |-> Undefined, metadata |-> Undefined],
    [type |-> "decision", content |-> TestContent("data2"),
     confidence |-> Some(3), embedding |-> Some(<<>>), metadata |-> Undefined],
    [type |-> "pattern", content |-> TestContent("data3"),
     confidence |-> Undefined, embedding |-> Some(<<1>>), metadata |-> Undefined] }

\* Payloads that are not a Memory: a type outside the union, a confidence
\* above 1 (confidences are counted in tenths).
MalformedPayloads ==
  { [type |-> "bogus", content |-> TestContent("data1"),
     confidence |-> Some(10), embedding |-> Undefined, metadata |-> Undefined],
    [type |-> "transaction", content |-> TestContent("data1"),
     confidence |-> Some(11), embedding |-> Undefined, metadata |-> Undefined] }

\* The outcomes learn is called with.
Outcomes ==
  { [transactionId |-> "t1", success |-> TRUE, pattern |-> Some(<<"g">>),
     confidence |-> 9],
    [transactionId |-> "t2", success |-> FALSE, pattern |-> Undefined,
     confidence |-> 4],
    [transactionId |-> "t3", success |-> FALSE, pattern |-> Some(<<"g">>),
     confidence |-> 2] }

\* The queries recall is called with.
Queries ==
  [type : {Undefined, Some("transaction"), Some("pattern")},
   limit : {Undefined, Some(1)},
   since : {Undefined, Some(Date(TickMs))}]
NoQuery == [type |-> Undefined, limit |-> Undefined, since |-> Undefined]

\* The criteria forget is called with.
Criterias ==
  { [olderThan |-> Undefined, type |-> Undefined, confidenceLessThan |-> Undefined],
    [olderThan |-> Undefined, type |-> Some("decision"), confidenceLessThan |-> Some(5)],
    [olderThan |-> Some(Date(TickMs)), type |-> Undefined, confidenceLessThan |-> Undefined] }

\* ------------------------------------------------------------------- state
VARIABLES
  config,       \* which clients and tiers the constructor set up
  cache,        \* inMemoryCache: the Map's entries in insertion order
  redisKV,      \* the Redis string keys: {[key, val, exp]}
  redisLists,   \* the Redis lists: {[key, items, exp]}
  rows,         \* the Supabase table agent_memories, in insertion order
  patternRows,  \* the Supabase table agent_patterns
  timers,       \* pending setTimeout callbacks: {[key, at]}
  now,          \* Date.now()
  nticks,       \* clock advances so far
  log,          \* history: every remember call, with what it returned
  undisturbed,  \* history: no forget, close or expiry has happened yet
  faults,       \* backend requests of remember and learn that may still fail
  agents        \* the agent ids the callers use

vars ==
  <<config, cache, redisKV, redisLists, rows, patternRows, timers, now, nticks,
    log, undisturbed, faults, agents>>

\* The stores an operation reads and writes, as one value.
Store ==
  [cache |-> cache, redisKV |-> redisKV, redisLists |-> redisLists, rows |-> rows,
   patternRows |-> patternRows, timers |-> timers]

SetStore(S) ==
  /\ cache' = S.cache
  /\ redisKV' = S.redisKV
  /\ redisLists' = S.redisLists
  /\ rows' = S.rows
  /\ patternRows' = S.patternRows
  /\ timers' = S.timers

\* ------------------------------------------------------------ the JS Map
RECURSIVE MapIndex(_, _)
MapIndex(m, key) ==
  IF m = <<>> THEN 0
  ELSE IF m[Len(m)].key = key THEN Len(m)
  ELSE MapIndex(SubSeq(m, 1, Len(m) - 1), key)

MapHas(m, key) == MapIndex(m, key) # 0
MapGet(m, key) == m[MapIndex(m, key)].value

\* Map.set keeps the place of a key that is already there.
MapSet(m, key, value) ==
  IF MapHas(m, key)
  THEN [m EXCEPT ![MapIndex(m, key)] = [key |-> key, value |-> value]]
  ELSE Append(m, [key |-> key, value |-> value])

\* A Map whose delete does nothing.
MapDeleteOmitted(m, key) == m

\* A delete that, for a key the Map does not hold, drops the eldest entry.
MapDeleteEldest(m, key) ==
  IF MapHas(m, key) THEN SelectSeq(m, LAMBDA e : e.key # key)
  ELSE IF m = <<>> THEN m ELSE Tail(m)

MapDelete(m, key) == SelectSeq(m, LAMBDA e : e.key # key)

\* ------------------------------------------------------------------ Redis
Live(e, t) == ~IsSome(e.exp) \/ Val(e.exp) > t
ExpireAt(t, ttl) == Some(t + ttl * MsPerSecond)

RedisSetex(kv, key, ttl, val, t) ==
  {e \in kv : e.key # key} \cup {[key |-> key, val |-> val, exp |-> ExpireAt(t, ttl)]}

RedisGet(kv, key, t) ==
  IF \E e \in kv : e.key = key /\ Live(e, t)
  THEN Some((CHOOSE e \in kv : e.key = key /\ Live(e, t)).val)
  ELSE Null

ListItems(lists, key, t) ==
  IF \E l \in lists : l.key = key /\ Live(l, t)
  THEN (CHOOSE l \in lists : l.key = key /\ Live(l, t)).items
  ELSE <<>>

ListExp(lists, key, t) ==
  IF \E l \in lists : l.key = key /\ Live(l, t)
  THEN (CHOOSE l \in lists : l.key = key /\ Live(l, t)).exp
  ELSE Undefined

ListPut(lists, key, items, exp) ==
  {l \in lists : l.key # key}
    \cup (IF items = <<>> THEN {} ELSE {[key |-> key, items |-> items, exp |-> exp]})

RedisLpush(lists, key, item, t) ==
  ListPut(lists, key, <<item>> \o ListItems(lists, key, t), ListExp(lists, key, t))

\* LRANGE and LTRIM take an inclusive stop index.
Range(items, start, stop) ==
  SubSeq(items, start + 1, IF stop + 1 < Len(items) THEN stop + 1 ELSE Len(items))

RedisLtrim(lists, key, start, stop, t) ==
  ListPut(lists, key, Range(ListItems(lists, key, t), start, stop), ListExp(lists, key, t))

RedisExpire(lists, key, ttl, t) ==
  ListPut(lists, key, ListItems(lists, key, t), ExpireAt(t, ttl))

RedisLrange(lists, key, start, stop, t) == Range(ListItems(lists, key, t), start, stop)

\* JSON.parse(JSON.stringify(memory)): a Date comes back as its ISO text.
JsonDate(d) == IF IsDate(d) THEN IsoString(d[2]) ELSE d
JsonRoundTrip(memory) ==
  [memory EXCEPT
     !.timestamp = JsonDate(@),
     !.metadata = IF IsSome(@)
                  THEN Some([Val(@) EXCEPT !.timestamp = JsonDate(@)])
                  ELSE @]

\* ------------------------------------------------------------ the helpers
\* generateId: `mem_${Date.now()}_${Math.random().toString(36).substr(2, 9)}`
generateId(t, random) == <<"m", "e", "m", "_">> \o NumberToString(t) \o <<"_">> \o random

\* matchesQuery
matchesQuery(memory, query) ==
  IF Truthy(query.type) /\ memory.type # Val(query.type) THEN FALSE
  ELSE IF Truthy(query.since) /\ DateLess(memory.timestamp, Val(query.since)) THEN FALSE
  ELSE TRUE

\* A property of a cached value that may not be there (undefined in JavaScript).
TimestampOf(value) == IF "timestamp" \in DOMAIN value THEN value.timestamp ELSE Undefined
TypeOf(value) == IF "type" \in DOMAIN value THEN Some(value.type) ELSE Undefined
ConfidenceOf(value) == IF "confidence" \in DOMAIN value THEN value.confidence ELSE Undefined
IdOf(value) == IF "id" \in DOMAIN value THEN Some(value.id) ELSE Undefined

\* A matchesForgetCriteria that wants every given criterion to match.
matchesForgetCriteriaAll(memory, criteria) ==
  /\ Truthy(criteria.olderThan) => DateLess(TimestampOf(memory), Val(criteria.olderThan))
  /\ Truthy(criteria.type) => TypeOf(memory) = criteria.type
  /\ TruthyNumber(criteria.confidenceLessThan) =>
       NumberLess(ConfidenceOf(memory), Val(criteria.confidenceLessThan))

\* matchesForgetCriteria
matchesForgetCriteria(memory, criteria) ==
  IF Truthy(criteria.olderThan) /\ DateLess(TimestampOf(memory), Val(criteria.olderThan))
    THEN TRUE
  ELSE IF Truthy(criteria.type) /\ TypeOf(memory) = criteria.type THEN TRUE
  ELSE IF TruthyNumber(criteria.confidenceLessThan)
          /\ NumberLess(ConfidenceOf(memory), Val(criteria.confidenceLessThan))
    THEN TRUE
  ELSE FALSE

\* deduplicateMemories: the first entry of each id is kept.
RECURSIVE Dedup(_, _)
Dedup(memories, seen) ==
  IF memories = <<>> THEN <<>>
  ELSE IF IdOf(Head(memories)) \in seen THEN Dedup(Tail(memories), seen)
  ELSE <<Head(memories)>> \o Dedup(Tail(memories), seen \cup {IdOf(Head(memories))})

\* A deduplication that keeps the last entry of each id.
RECURSIVE Reverse(_)
Reverse(seq) == IF seq = <<>> THEN <<>> ELSE Append(Reverse(Tail(seq)), Head(seq))
deduplicateMemoriesKeepLast(memories) == Reverse(Dedup(Reverse(memories), {}))

\* A recall that keeps every entry the tiers gave.
deduplicateMemoriesOmitted(memories) == memories

deduplicateMemories(memories) == Dedup(memories, {})

\* The comparator of recall's sort calls timestamp.getTime() on both of its
\* arguments: it throws on anything that is not a Date, and the sort calls it
\* as soon as the list has two entries.
SortThrows(memories) ==
  Len(memories) >= 2 /\ \E i \in 1..Len(memories) : ~IsDate(TimestampOf(memories[i]))

\* Array.prototype.sort is stable: an entry goes behind every entry already
\* placed whose time is not smaller.
InsertByTime(sorted, m) ==
  LET k == Cardinality({i \in 1..Len(sorted) : sorted[i].timestamp[2] >= m.timestamp[2]})
  IN SubSeq(sorted, 1, k) \o <<m>> \o SubSeq(sorted, k + 1, Len(sorted))

RECURSIVE SortFrom(_, _)
SortFrom(sorted, rest) ==
  IF rest = <<>> THEN sorted ELSE SortFrom(InsertByTime(sorted, Head(rest)), Tail(rest))

\* A recall that forgets to sort.
sortByTimestampOmitted(memories) == memories

\* memories.sort((a, b) => b.timestamp.getTime() - a.timestamp.getTime())
sortByTimestamp(memories) == IF Len(memories) < 2 THEN memories ELSE SortFrom(<<>>, memories)

\* ------------------------------------------------------------- the writes
\* storeShortTerm. With a Redis client the four commands run in turn and
\* failAt names the one that rejects (0: none); without one the entry goes
\* to the Map and a timer is set.
storeShortTerm(S, memory, t, failAt) ==
  LET key == MemoryKey(memory.agentId, memory.id)
      listKey == ListKey(memory.agentId)
      kv1 == RedisSetex(S.redisKV, key, TtlSeconds, JsonRoundTrip(memory), t)
      l1 == RedisLpush(S.redisLists, listKey, memory.id, t)
      l2 == RedisLtrim(l1, listKey, 0, config.maxItems, t)
      l3 == RedisExpire(l2, listKey, TtlSeconds, t)
  IN IF config.redis
     THEN CASE failAt = 1 -> [threw |-> TRUE, store |-> S]
            [] failAt = 2 -> [threw |-> TRUE, store |-> [S EXCEPT !.redisKV = kv1]]
            [] failAt = 3 ->
                 [threw |-> TRUE, store |-> [S EXCEPT !.redisKV = kv1, !.redisLists = l1]]
            [] failAt = 4 ->
                 [threw |-> TRUE, store |-> [S EXCEPT !.redisKV = kv1, !.redisLists = l2]]
            [] OTHER ->
                 [threw |-> FALSE, store |-> [S EXCEPT !.redisKV = kv1, !.redisLists = l3]]
     ELSE [threw |-> FALSE,
           store |-> [S EXCEPT
                        !.cache = MapSet(@, key, memory),
                        !.timers = @ \cup {[key |-> key, at |-> t + TtlSeconds * MsPerSecond]}]]

\* JSON leaves an undefined property out; the column reads back as null.
ToColumn(o) == IF o = Undefined THEN Null ELSE o

ToRow(memory) ==
  [id |-> memory.id, agent_id |-> memory.agentId, memory_type |-> memory.type,
   content |-> memory.content, confidence |-> ToColumn(memory.confidence),
   embedding |-> ToColumn(memory.embedding),
   metadata |-> ToColumn(JsonRoundTrip(memory).metadata),
   created_at |-> JsonDate(memory.timestamp)]

\* A storeLongTerm without the Map fallback: nothing is kept without a client.
storeLongTermNoFallback(S, memory, insertOk) ==
  IF config.supabase /\ insertOk
  THEN [threw |-> FALSE, store |-> [S EXCEPT !.rows = Append(@, ToRow(memory))]]
  ELSE [threw |-> FALSE, store |-> S]

\* A storeLongTerm without the try/catch: a failed insert rejects the call.
storeLongTermThrows(S, memory, insertOk) ==
  IF ~config.supabase
  THEN [threw |-> FALSE,
        store |-> [S EXCEPT
                     !.cache = MapSet(@, LongTermKey(memory.agentId, memory.id), memory)]]
  ELSE IF insertOk
  THEN [threw |-> FALSE, store |-> [S EXCEPT !.rows = Append(@, ToRow(memory))]]
  ELSE [threw |-> TRUE, store |-> S]

\* storeLongTerm. Without a Supabase client the entry goes to the Map; with
\* one the insert either succeeds or fails (insertOk), and a failure is logged.
storeLongTerm(S, memory, insertOk) ==
  IF ~config.supabase
  THEN [threw |-> FALSE,
        store |-> [S EXCEPT
                     !.cache = MapSet(@, LongTermKey(memory.agentId, memory.id), memory)]]
  ELSE IF insertOk
  THEN [threw |-> FALSE, store |-> [S EXCEPT !.rows = Append(@, ToRow(memory))]]
  ELSE [threw |-> FALSE, store |-> S]

\* A storeSemanticMemory without the length check.
storeSemanticMemoryUnchecked(S, memory) ==
  [S EXCEPT
     !.cache = MapSet(@, SemanticKey(memory.agentId, memory.id),
                      [embedding |-> memory.embedding,
                       metadata |-> [id |-> memory.id, type |-> memory.type,
                                     confidence |-> memory.confidence]])]

\* storeSemanticMemory
storeSemanticMemory(S, memory) ==
  IF IsSome(memory.embedding) /\ Len(Val(memory.embedding)) > 0
  THEN [S EXCEPT
          !.cache = MapSet(@, SemanticKey(memory.agentId, memory.id),
                           [embedding |-> memory.embedding,
                            metadata |-> [id |-> memory.id, type |-> memory.type,
                                          confidence |-> memory.confidence]])]
  ELSE S

\* The guard of remember's third write: config.semantic && memory.embedding
\* (an array, empty or not, is truthy).
WantsSemantic(memory) == config.semantic /\ Truthy(memory.embedding)

\* remember: [threw, id, store, longTerm], longTerm saying what became of the
\* long-term write ("skipped", "written", "failed").
remember(S, agentId, payload, t, random, failAt, insertOk) ==
  LET fullMemory ==
        [id |-> generateId(t, random), agentId |-> agentId, timestamp |-> Date(t),
         type |-> payload.type, content |-> payload.content,
         confidence |-> payload.confidence, embedding |-> payload.embedding,
         metadata |-> payload.metadata]
      st == storeShortTerm(S, fullMemory, t, failAt)
      lt == IF config.longTerm THEN storeLongTerm(st.store, fullMemory, insertOk)
            ELSE [threw |-> FALSE, store |-> st.store]
      sem == IF WantsSemantic(fullMemory) THEN storeSemanticMemory(lt.store, fullMemory)
             ELSE lt.store
      longTerm == IF ~config.longTerm THEN "skipped"
                  ELSE IF config.supabase /\ ~insertOk THEN "failed" ELSE "written"
  IN IF st.threw
     THEN [threw |-> TRUE, id |-> Undefined, store |-> st.store, memory |-> fullMemory,
           longTerm |-> "skipped"]
     ELSE IF lt.threw
     THEN [threw |-> TRUE, id |-> Undefined, store |-> lt.store, memory |-> fullMemory,
           longTerm |-> longTerm]
     ELSE [threw |-> FALSE, id |-> Some(fullMemory.id), store |-> sem,
           memory |-> fullMemory, longTerm |-> longTerm]

\* -------------------------------------------------------------- the reads
RECURSIVE SeqMap(_, _)
SeqMap(F(_), seq) == IF seq = <<>> THEN <<>> ELSE <<F(Head(seq))>> \o SeqMap(F, Tail(seq))

RECURSIVE Flatten(_)
Flatten(seqs) == IF seqs = <<>> THEN <<>> ELSE Head(seqs) \o Flatten(Tail(seqs))

Values(entries) == SeqMap(LAMBDA e : e.value, entries)

\* The memories of the Redis keys of ids, in the order of ids, those that
\* are gone or do not match left out.
RedisMemories(S, agentId, ids, query, t) ==
  Flatten(SeqMap(
    LAMBDA id :
      LET data == RedisGet(S.redisKV, MemoryKey(agentId, id), t)
      IN IF IsSome(data) /\ matchesQuery(Val(data), query) THEN <<Val(data)>> ELSE <<>>,
    ids))

\* query.limit || 10
LimitOf(query) == IF TruthyNumber(query.limit) THEN Val(query.limit) ELSE DefaultLimit

\* queryShortTerm: [threw, list]. A Redis command that rejects makes the call reject.
queryShortTerm(S, agentId, query, t, redisFails) ==
  IF config.redis
  THEN IF redisFails THEN [threw |-> TRUE, list |-> <<>>]
       ELSE [threw |-> FALSE,
             list |-> RedisMemories(S, agentId,
                        RedisLrange(S.redisLists, ListKey(agentId), 0, LimitOf(query), t),
                        query, t)]
  ELSE [threw |-> FALSE,
        list |-> Values(SelectSeq(S.cache,
                   LAMBDA e : StartsWith(e.key, MemoryPrefix \o agentId \o Colon)
                              /\ matchesQuery(e.value, query)))]

FromRow(row) ==
  [id |-> row.id, agentId |-> row.agent_id,
   timestamp |-> IF row.created_at[1] = "ISO" THEN Date(row.created_at[2]) ELSE row.created_at,
   type |-> row.memory_type, content |-> row.content, confidence |-> row.confidence,
   embedding |-> row.embedding, metadata |-> row.metadata]

\* The rows the Supabase select of queryLongTerm matches: agent_id, and the
\* memory_type and created_at of the query when it gives them.
RowMatches(row, agentId, query) ==
  /\ row.agent_id = agentId
  /\ Truthy(query.type) => row.memory_type = Val(query.type)
  /\ Truthy(query.since) => row.created_at[2] >= Val(query.since)[2]

FirstN(seq, n) == SubSeq(seq, 1, IF n < Len(seq) THEN n ELSE Len(seq))

\* queryLongTerm: the Map's longterm: entries without a Supabase client, the
\* selected rows with one, and nothing when the select fails.
queryLongTerm(S, agentId, query, selectFails) ==
  IF ~config.supabase
  THEN Values(SelectSeq(S.cache,
         LAMBDA e : StartsWith(e.key, LongTermPrefix \o agentId \o Colon)
                    /\ matchesQuery(e.value, query)))
  ELSE IF selectFails THEN <<>>
  ELSE LET matching == SelectSeq(S.rows, LAMBDA row : RowMatches(row, agentId, query))
       IN SeqMap(FromRow,
                 IF TruthyNumber(query.limit) THEN FirstN(matching, Val(query.limit))
                 ELSE matching)

\* querySemanticMemory: the semantic: entries themselves, not memories.
querySemanticMemory(S, agentId, query) ==
  Values(SelectSeq(S.cache,
    LAMBDA e : StartsWith(e.key, SemanticPrefix \o agentId \o Colon)
               /\ e.value.metadata.type = "pattern"))

\* A recall that asks the long-term tier whatever the short-term tier gave.
GatheredUngated(S, agentId, query, t, fails) ==
  LET shortTerm == queryShortTerm(S, agentId, query, t, fails.redis).list
      longTerm == IF config.longTerm
                  THEN queryLongTerm(S, agentId, query, fails.supabase) ELSE <<>>
      semantic == IF query.type = Some("pattern") /\ config.semantic
                  THEN querySemanticMemory(S, agentId, query) ELSE <<>>
  IN shortTerm \o longTerm \o semantic

\* A recall that asks the semantic tier only when results are still missing.
GatheredSemanticGated(S, agentId, query, t, fails) ==
  LET shortTerm == queryShortTerm(S, agentId, query, t, fails.redis).list
      longTerm == IF Len(shortTerm) < LimitOf(query) /\ config.longTerm
                  THEN queryLongTerm(S, agentId, query, fails.supabase) ELSE <<>>
      semantic == IF query.type = Some("pattern") /\ config.semantic
                     /\ Len(shortTerm \o longTerm) < LimitOf(query)
                  THEN querySemanticMemory(S, agentId, query) ELSE <<>>
  IN shortTerm \o longTerm \o semantic

\* What recall gathers from the tiers before it deduplicates and sorts.
Gathered(S, agentId, query, t, fails) ==
  LET shortTerm == queryShortTerm(S, agentId, query, t, fails.redis).list
      longTerm == IF Len(shortTerm) < LimitOf(query) /\ config.longTerm
                  THEN queryLongTerm(S, agentId, query, fails.supabase) ELSE <<>>
      semantic == IF query.type = Some("pattern") /\ config.semantic
                  THEN querySemanticMemory(S, agentId, query) ELSE <<>>
  IN shortTerm \o longTerm \o semantic

\* recall: [threw, list]
recall(S, agentId, query, t, fails) ==
  LET unique == deduplicateMemories(Gathered(S, agentId, query, t, fails))
  IN IF queryShortTerm(S, agentId, query, t, fails.redis).threw \/ SortThrows(unique)
     THEN [threw |-> TRUE, list |-> <<>>]
     ELSE [threw |-> FALSE, list |-> sortByTimestamp(unique)]

\* What may fail during one call: a Redis command, a Supabase request.
Fails == [redis : BOOLEAN, supabase : BOOLEAN]
NoFails == [redis |-> FALSE, supabase |-> FALSE]
\* The failures that can happen under the configuration.
PossibleFails == {f \in Fails : (f.redis => config.redis) /\ (f.supabase => config.supabase)}

\* ------------------------------------------------------ learn and forget
\* An updatePattern whose in-process counter starts anew at every call.
updatePatternOverwrites(S, agentId, pattern, success, t, upsertOk) ==
  IF config.supabase
  THEN IF upsertOk
       THEN [S EXCEPT
               !.patternRows =
                 {r \in @ : ~(r.agent_id = agentId /\ r.pattern_signature = pattern)}
                   \cup {[agent_id |-> agentId, pattern_signature |-> pattern,
                          frequency |-> 1, success_rate |-> IF success THEN 1 ELSE 0,
                          last_updated |-> t]}]
       ELSE S
  ELSE [S EXCEPT
          !.cache = MapSet(@, PatternKey(agentId, pattern),
                      [frequency |-> 1, successes |-> IF success THEN 1 ELSE 0])]

\* updatePattern: a blind upsert of frequency 1 with a Supabase client (a
\* failure is logged), a counter in the Map without one.
updatePattern(S, agentId, pattern, success, t, upsertOk) ==
  IF config.supabase
  THEN IF upsertOk
       THEN [S EXCEPT
               !.patternRows =
                 {r \in @ : ~(r.agent_id = agentId /\ r.pattern_signature = pattern)}
                   \cup {[agent_id |-> agentId, pattern_signature |-> pattern,
                          frequency |-> 1, success_rate |-> IF success THEN 1 ELSE 0,
                          last_updated |-> t]}]
       ELSE S
  ELSE LET key == PatternKey(agentId, pattern)
           existing == IF MapHas(S.cache, key) THEN MapGet(S.cache, key)
                       ELSE [frequency |-> 0, successes |-> 0]
       IN [S EXCEPT
             !.cache = MapSet(@, key,
                         [frequency |-> existing.frequency + 1,
                          successes |-> existing.successes + (IF success THEN 1 ELSE 0)])]

\* A learn that leaves the pattern out of the content.
LearnPayloadNoPattern(outcome, t) ==
  [type |-> "pattern",
   content |-> [NoContent EXCEPT
                  !.transactionId = Some(outcome.transactionId),
                  !.success = Some(outcome.success)],
   confidence |-> Some(outcome.confidence),
   embedding |-> Undefined,
   metadata |-> Some([learned |-> TRUE, timestamp |-> Date(t)])]

\* The memory learn passes to remember.
LearnPayload(outcome, t) ==
  [type |-> "pattern",
   content |-> [NoContent EXCEPT
                  !.transactionId = Some(outcome.transactionId),
                  !.success = Some(outcome.success),
                  !.pattern = outcome.pattern],
   confidence |-> Some(outcome.confidence),
   embedding |-> Undefined,
   metadata |-> Some([learned |-> TRUE, timestamp |-> Date(t)])]

\* learn: remember, then updatePattern when outcome.pattern is truthy.
learn(S, agentId, outcome, t, random, failAt, insertOk, upsertOk) ==
  LET r == remember(S, agentId, LearnPayload(outcome, t), t, random, failAt, insertOk)
  IN IF r.threw \/ ~TruthyString(outcome.pattern) THEN r
     ELSE [r EXCEPT
             !.store = updatePattern(@, agentId, Val(outcome.pattern), outcome.success, t,
                                     upsertOk)]

\* A delete whose filters are alternatives.
RowForgottenAny(row, agentId, criteria) ==
  /\ row.agent_id = agentId
  /\ \/ Truthy(criteria.olderThan) /\ row.created_at[2] < Val(criteria.olderThan)[2]
     \/ Truthy(criteria.type) /\ row.memory_type = Val(criteria.type)
     \/ /\ criteria.confidenceLessThan # Undefined
        /\ IsSome(row.confidence)
        /\ Val(row.confidence) < Val(criteria.confidenceLessThan)

\* The rows the Supabase delete of forget matches: every given criterion.
RowForgotten(row, agentId, criteria) ==
  /\ row.agent_id = agentId
  /\ Truthy(criteria.olderThan) => row.created_at[2] < Val(criteria.olderThan)[2]
  /\ Truthy(criteria.type) => row.memory_type = Val(criteria.type)
  /\ criteria.confidenceLessThan # Undefined =>
       IsSome(row.confidence) /\ Val(row.confidence) < Val(criteria.confidenceLessThan)

\* A forget that also drops the entries that are not memories.
EntryForgottenUntyped(e, agentId, criteria) ==
  /\ Includes(e.key, agentId)
  /\ matchesForgetCriteria(e.value, criteria) \/ "type" \notin DOMAIN e.value

\* The Map entries forget deletes: key.includes(agentId) and any criterion.
EntryForgotten(e, agentId, criteria) ==
  Includes(e.key, agentId) /\ matchesForgetCriteria(e.value, criteria)

\* A forget that returns the count of the long-term pass alone.
forgetRowsCounted(S, agentId, criteria, deleteFails) ==
  LET gone == IF config.supabase /\ ~deleteFails
              THEN SelectSeq(S.rows, LAMBDA row : RowForgotten(row, agentId, criteria))
              ELSE <<>>
      kept == IF config.supabase /\ ~deleteFails
              THEN SelectSeq(S.rows, LAMBDA row : ~RowForgotten(row, agentId, criteria))
              ELSE S.rows
      cleaned == SelectSeq(S.cache, LAMBDA e : ~EntryForgotten(e, agentId, criteria))
  IN [count |-> Len(gone), store |-> [S EXCEPT !.rows = kept, !.cache = cleaned]]

\* forget: [count, store]
forget(S, agentId, criteria, deleteFails) ==
  LET gone == IF config.supabase /\ ~deleteFails
              THEN SelectSeq(S.rows, LAMBDA row : RowForgotten(row, agentId, criteria))
              ELSE <<>>
      kept == IF config.supabase /\ ~deleteFails
              THEN SelectSeq(S.rows, LAMBDA row : ~RowForgotten(row, agentId, criteria))
              ELSE S.rows
      cleaned == SelectSeq(S.cache, LAMBDA e : ~EntryForgotten(e, agentId, criteria))
  IN [count |-> Len(gone) + (Len(S.cache) - Len(cleaned)),
      store |-> [S EXCEPT !.rows = kept, !.cache = cleaned]]

\* A JavaScript number that may be NaN.
Number(n) == <<"number", n>>
NaN == <<"NaN">>
Divide(sum, n) == IF n = 0 THEN NaN ELSE Number(sum \div n)

\* sum + p.confidence over the selected rows; updatePattern writes no
\* confidence, the column reads back as null and null adds 0.
RECURSIVE SumConfidence(_)
SumConfidence(data) ==
  IF data = <<>> THEN 0
  ELSE (IF IsSome(Head(data).confidence) THEN Val(Head(data).confidence) ELSE 0)
         + SumConfidence(Tail(data))

\* The rows of agent_patterns the select of getStats gives, confidence only.
RECURSIVE PatternData(_, _)
PatternData(patterns, agentId) ==
  IF patterns = {} THEN <<>>
  ELSE LET r == CHOOSE x \in patterns : TRUE
       IN (IF r.agent_id = agentId THEN <<[confidence |-> Null]>> ELSE <<>>)
            \o PatternData(patterns \ {r}, agentId)

\* A getStats that divides without looking at data.length.
getStatsUnguarded(S, agentId, t, fails) ==
  LET data == IF fails.supabase THEN <<>> ELSE PatternData(S.patternRows, agentId)
  IN [threw |-> config.redis /\ fails.redis,
      stats |-> [shortTermCount |-> 0, longTermCount |-> 0, patterns |-> Len(data),
                 avgConfidence |->
                   IF config.supabase THEN Divide(SumConfidence(data), Len(data))
                   ELSE Number(0)]]

\* getStats: [threw, stats]. redis.llen rejecting makes the call reject; a
\* Supabase select that fails gives a null count and null data.
getStats(S, agentId, t, fails) ==
  LET data == IF fails.supabase THEN <<>> ELSE PatternData(S.patternRows, agentId)
      counted == Cardinality({k \in 1..Len(S.rows) : S.rows[k].agent_id = agentId})
  IN IF config.redis /\ fails.redis
     THEN [threw |-> TRUE,
           stats |-> [shortTermCount |-> 0, longTermCount |-> 0, patterns |-> 0,
                      avgConfidence |-> Number(0)]]
     ELSE [threw |-> FALSE,
           stats |->
             [shortTermCount |->
                IF config.redis THEN Len(ListItems(S.redisLists, ListKey(agentId), t)) ELSE 0,
              longTermCount |->
                IF config.supabase /\ ~fails.supabase THEN counted ELSE 0,
              patterns |-> IF config.supabase /\ Len(data) > 0 THEN Len(data) ELSE 0,
              avgConfidence |->
                IF config.supabase /\ Len(data) > 0
                THEN Divide(SumConfidence(data), Len(data)) ELSE Number(0)]]

\* A close that leaves the Map as it is.
closeKeepsMap(S, quitFails) == [threw |-> config.redis /\ quitFails, store |-> S]

\* close: redis.quit() when there is a client, then the Map is cleared.
close(S, quitFails) ==
  IF config.redis /\ quitFails THEN [threw |-> TRUE, store |-> S]
  ELSE [threw |-> FALSE, store |-> [S EXCEPT !.cache = <<>>]]

\* ----------------------------------------------------------------- actions
ConfigsOf(maxItems) ==
  {c \in [redis : BOOLEAN, longTerm : BOOLEAN, supabase : BOOLEAN, semantic : BOOLEAN,
          provider : {"redis", "memory"}, maxItems : {maxItems}] :
     /\ c.supabase => c.longTerm
     /\ c.redis <=> c.provider = "redis"}

Configs == ConfigsOf(MaxItems)

\* The state after the constructor, for callers that use the agent ids ids
\* and backends of which n write requests fail.
InitWith(ids, n, configs) ==
  /\ agents = ids
  /\ faults = n
  /\ config \in configs
  /\ cache = <<>>
  /\ redisKV = {}
  /\ redisLists = {}
  /\ rows = <<>>
  /\ patternRows = {}
  /\ timers = {}
  /\ now = 0
  /\ nticks = 0
  /\ log = <<>>
  /\ undisturbed = TRUE

InitFor(ids, n) == InitWith(ids, n, Configs)

\* One agent id, and backends whose write requests succeed.
Init == InitFor({<<"a">>}, 0)

\* The Redis command of storeShortTerm that rejects (0: none).
FailPoints == IF config.redis THEN 0..4 ELSE {0}
SupabaseOutcomes == IF config.supabase THEN BOOLEAN ELSE {TRUE}
\* The requests of one write that failed, counted against MaxFailures.
Failed(flags) == Cardinality({i \in 1..Len(flags) : flags[i]})
CountFailures(flags) ==
  /\ Failed(flags) <= faults
  /\ faults' = faults - Failed(flags)

\* What the history keeps of a remember call (of a caller, or of learn): the
\* memory it built, the outcome learn was given, whether it threw, the id it
\* returned and what became of its long-term write.
LogEntry(op, outcome, r) ==
  [op |-> op, agentId |-> r.memory.agentId, memory |-> r.memory, outcome |-> outcome,
   threw |-> r.threw, returned |-> r.id, longTerm |-> r.longTerm]

Remember ==
  /\ Len(log) < MaxWrites
  /\ \E agentId \in agents, payload \in Payloads, random \in RandomTexts,
        failAt \in FailPoints, insertOk \in SupabaseOutcomes :
       LET r == remember(Store, agentId, payload, now, random, failAt, insertOk)
       IN /\ CountFailures(<<failAt # 0, ~insertOk>>)
          /\ SetStore(r.store)
          /\ log' = Append(log, LogEntry("remember", Undefined, r))
  /\ UNCHANGED <<config, now, nticks, undisturbed, agents>>

Learn ==
  /\ Len(log) < MaxWrites
  /\ \E agentId \in agents, outcome \in Outcomes, random \in RandomTexts,
        failAt \in FailPoints, insertOk \in SupabaseOutcomes,
        upsertOk \in SupabaseOutcomes :
       LET r == learn(Store, agentId, outcome, now, random, failAt, insertOk, upsertOk)
       IN /\ CountFailures(<<failAt # 0, ~insertOk, ~upsertOk>>)
          /\ SetStore(r.store)
          /\ log' = Append(log, LogEntry("learn", Some(outcome), r))
  /\ UNCHANGED <<config, now, nticks, undisturbed, agents>>

\* A read that renews the expiry of what the short-term store holds.
RecallRenews ==
  /\ redisKV' = {[e EXCEPT !.exp = ExpireAt(now, TtlSeconds)] : e \in redisKV}
  /\ timers' = {[timer EXCEPT !.at = now + TtlSeconds * MsPerSecond] : timer \in timers}
  /\ UNCHANGED <<config, cache, redisLists, rows, patternRows, now, nticks, log,
                 undisturbed, faults, agents>>

\* recall writes to no store: what a call returns in a state is
\* recall(Store, agentId, query, now, fails).
Recall == UNCHANGED vars

Forget ==
  /\ \E agentId \in agents, criteria \in Criterias, deleteFails \in {~ok : ok \in SupabaseOutcomes} :
       LET r == forget(Store, agentId, criteria, deleteFails)
       IN SetStore(r.store)
  /\ undisturbed' = FALSE
  /\ UNCHANGED <<config, now, nticks, log, faults, agents>>

Close ==
  /\ \E quitFails \in {f \in BOOLEAN : f => config.redis} :
       LET r == close(Store, quitFails)
       IN SetStore(r.store)
  /\ undisturbed' = FALSE
  /\ UNCHANGED <<config, now, nticks, log, faults, agents>>

\* The 'error' handler of the Redis client runs: the provider of the
\* configuration becomes 'memory'; this.redis stays as it is.
RedisError ==
  /\ config.redis
  /\ config' = [config EXCEPT !.provider = "memory"]
  /\ UNCHANGED <<cache, redisKV, redisLists, rows, patternRows, timers, now, nticks, log,
                 undisturbed, faults, agents>>

\* getStats writes to no store: what a call returns in a state is
\* getStats(Store, agentId, now, fails).
GetStats == UNCHANGED vars

\* A due setTimeout callback of storeShortTerm runs: inMemoryCache.delete(key).
TimerFire ==
  /\ \E timer \in timers :
       /\ timer.at <= now
       /\ cache' = MapDelete(cache, timer.key)
       /\ timers' = timers \ {timer}
  /\ undisturbed' = FALSE
  /\ UNCHANGED <<config, redisKV, redisLists, rows, patternRows, now, nticks, log, faults,
                 agents>>

\* The clock advances.
Expired(t) ==
  \/ \E e \in redisKV : ~Live(e, t)
  \/ \E l \in redisLists : ~Live(l, t)

Tick ==
  /\ nticks < MaxTicks
  /\ now' = now + TickMs
  /\ nticks' = nticks + 1
  /\ undisturbed' = (undisturbed /\ ~Expired(now'))
  /\ UNCHANGED <<config, cache, redisKV, redisLists, rows, patternRows, timers, log, faults,
                 agents>>

Next ==
  Remember \/ Learn \/ Recall \/ Forget \/ GetStats \/ Close \/ RedisError \/ TimerFire
    \/ Tick

Spec == Init /\ [][Next]_vars

\* The same manager with callers for two agent ids, one a prefix of the other.
InitAgents == InitFor(AgentIds, 0)
SpecAgents == InitAgents /\ [][Next]_vars

\* The same manager with backends of which write requests fail.
InitFaults == InitFor({<<"a">>}, MaxFailures)
SpecFaults == InitFaults /\ [][Next]_vars

\* The same manager with room in the short-term index for every remember
\* call of a run.
InitRoomy == InitWith({<<"a">>}, 0, ConfigsOf(MaxWrites))
SpecRoomy == InitRoomy /\ [][Next]_vars

\* ------------------------------------------------------------- the claims
\* Calls of recall a caller can make in a state, and what may fail in them.
RecallOf(agentId, query, fails) == recall(Store, agentId, query, now, fails)

\* The entries of list that carry the id of memory m.
Occurrences(list, id) == {k \in 1..Len(list) : IdOf(list[k]) = Some(id)}

\* The remember calls of the history that returned, for agentId.
Stored(agentId) == {i \in 1..Len(log) : log[i].agentId = agentId /\ ~log[i].threw}

SameFields(entry, memory) ==
  /\ TypeOf(entry) = Some(memory.type)
  /\ "content" \in DOMAIN entry /\ entry.content = memory.content
  /\ ConfidenceOf(entry) = memory.confidence

\* C1: in degraded mode (no Redis client) and before any expiry, forget or
\* close, recall(agent) with no filter returns every memory remember stored
\* for the agent exactly once, under the id remember returned, with its type,
\* content and confidence.
RoundTrip ==
  (~config.redis /\ undisturbed) =>
    \A agentId \in agents, fails \in PossibleFails :
      LET r == RecallOf(agentId, NoQuery, fails)
      IN /\ ~r.threw
         /\ \A i \in Stored(agentId) :
              /\ log[i].returned = Some(log[i].memory.id)
              /\ Cardinality(Occurrences(r.list, log[i].memory.id)) = 1
              /\ \A k \in Occurrences(r.list, log[i].memory.id) :
                   SameFields(r.list[k], log[i].memory)
         /\ Cardinality({k \in 1..Len(r.list) : r.list[k].agentId = agentId})
              = Cardinality(Stored(agentId))

\* C2: recall(agent, {limit: n}) returns at most n memories, for every n >= 1.
LimitRespected ==
  \A agentId \in agents, query \in Queries, fails \in PossibleFails :
    TruthyNumber(query.limit) =>
      LET r == RecallOf(agentId, query, fails)
      IN ~r.threw => Len(r.list) <= Val(query.limit)

\* C3: every list recall returns is sorted by timestamp descending: of two
\* adjacent entries the first one's timestamp is not smaller.
RecallSorted ==
  \A agentId \in agents, query \in Queries, fails \in PossibleFails :
    LET r == RecallOf(agentId, query, fails)
    IN ~r.threw =>
         \A k \in 1..(Len(r.list) - 1) :
           /\ IsDate(TimestampOf(r.list[k]))
           /\ IsDate(TimestampOf(r.list[k + 1]))
           /\ TimestampOf(r.list[k])[2] >= TimestampOf(r.list[k + 1])[2]

\* A recall returns two memories the tiers gave it oldest first.
RecallSortedWitness ==
  \E agentId \in agents :
    LET r == RecallOf(agentId, NoQuery, NoFails)
        g == Gathered(Store, agentId, NoQuery, now, NoFails)
    IN /\ ~r.threw
       /\ Len(r.list) >= 2
       /\ r.list[1].timestamp[2] > r.list[2].timestamp[2]
       /\ g[1].timestamp[2] < g[2].timestamp[2]

\* C4: a list recall returns never holds two entries of one id, and an id
\* that more than one tier gave appears in it exactly once.
RecallDeduplicated ==
  \A agentId \in agents, query \in Queries, fails \in PossibleFails :
    LET r == RecallOf(agentId, query, fails)
        g == Gathered(Store, agentId, query, now, fails)
    IN ~r.threw =>
         /\ \A j, k \in 1..Len(r.list) : IdOf(r.list[j]) = IdOf(r.list[k]) => j = k
         /\ \A j \in 1..Len(g) :
              Cardinality({k \in 1..Len(r.list) : IdOf(r.list[k]) = IdOf(g[j])}) = 1

\* A recall returns once a memory that the short-term and the long-term
\* tier both gave.
RecallDeduplicatedWitness ==
  \E agentId \in agents :
    LET r == RecallOf(agentId, NoQuery, NoFails)
        shortTerm == queryShortTerm(Store, agentId, NoQuery, now, FALSE).list
        longTerm == queryLongTerm(Store, agentId, NoQuery, FALSE)
    IN /\ ~r.threw
       /\ \E j \in 1..Len(shortTerm), k \in 1..Len(longTerm) :
            /\ shortTerm[j].id = longTerm[k].id
            /\ Cardinality(Occurrences(r.list, shortTerm[j].id)) = 1

\* C5: recall(agent, {type: T}) returns only memories of type T, and in
\* degraded mode, before any expiry, forget or close, every memory of type T
\* that remember stored for the agent.
TypeFilter ==
  \A agentId \in agents, query \in Queries, fails \in PossibleFails :
    Truthy(query.type) /\ query.limit = Undefined /\ query.since = Undefined =>
      LET r == RecallOf(agentId, query, fails)
      IN /\ ~r.threw => \A k \in 1..Len(r.list) : TypeOf(r.list[k]) = query.type
         /\ (~config.redis /\ undisturbed) =>
              /\ ~r.threw
              /\ \A i \in Stored(agentId) :
                   log[i].memory.type = Val(query.type) =>
                     Occurrences(r.list, log[i].memory.id) # {}

\* C6: any two remember calls of one manager return different ids.
IdsDistinct ==
  \A i, j \in 1..Len(log) :
    (i # j /\ ~log[i].threw /\ ~log[j].threw) => log[i].returned # log[j].returned

\* A step of remember, called by a caller or by learn.
Last(seq) == seq[Len(seq)]
WriteStep == Len(log') = Len(log) + 1

\* The short-term store S holds memory m at time t: under its Redis key and in
\* the agent's list with a client, under its Map key without one.
ShortTermHolds(S, m, t) ==
  IF config.redis
  THEN /\ RedisGet(S.redisKV, MemoryKey(m.agentId, m.id), t) = Some(JsonRoundTrip(m))
       /\ \E k \in 1..Len(ListItems(S.redisLists, ListKey(m.agentId), t)) :
            ListItems(S.redisLists, ListKey(m.agentId), t)[k] = m.id
  ELSE /\ MapHas(S.cache, MemoryKey(m.agentId, m.id))
       /\ MapGet(S.cache, MemoryKey(m.agentId, m.id)) = m

\* The long-term store S holds memory m: as a row with a Supabase client,
\* under its longterm: key of the Map without one.
LongTermHolds(S, m) ==
  IF config.supabase
  THEN \E k \in 1..Len(S.rows) : S.rows[k] = ToRow(m)
  ELSE /\ MapHas(S.cache, LongTermKey(m.agentId, m.id))
       /\ MapGet(S.cache, LongTermKey(m.agentId, m.id)) = m

\* The short-term entries of S other than the one under key.
OtherShortTerm(S, key) ==
  IF config.redis THEN {e \in S.redisKV : e.key # key}
  ELSE {S.cache[k] : k \in {j \in 1..Len(S.cache) :
                              StartsWith(S.cache[j].key, MemoryPrefix) /\ S.cache[j].key # key}}

PatternQuery == [NoQuery EXCEPT !.type = Some("pattern")]

\* C7: learn(agent, outcome) stores one new memory of type 'pattern' whose
\* content carries the outcome's transactionId, success and pattern and
\* whose confidence is the outcome's, and leaves the other short-term entries
\* alone; on an empty store, a recall(agent, {type: 'pattern'}) that follows
\* returns exactly that one record.
LearnStoresPattern ==
  [][(WriteStep /\ Last(log').op = "learn" /\ ~Last(log').threw) =>
       LET m == Last(log').memory
           o == Val(Last(log').outcome)
       IN /\ m.type = "pattern"
          /\ m.content.transactionId = Some(o.transactionId)
          /\ m.content.success = Some(o.success)
          /\ m.content.pattern = o.pattern
          /\ m.confidence = Some(o.confidence)
          /\ ShortTermHolds(Store', m, now')
          /\ OtherShortTerm(Store', MemoryKey(m.agentId, m.id))
               = OtherShortTerm(Store, MemoryKey(m.agentId, m.id))
          /\ log = <<>> =>
               \A fails \in {f \in PossibleFails : ~f.redis} :
                 LET r == recall(Store', m.agentId, PatternQuery, now', fails)
                 IN /\ ~r.threw
                    /\ Len(r.list) = 1
                    /\ IdOf(r.list[1]) = Some(m.id)
                    /\ r.list[1].content.pattern = o.pattern]_vars

\* learn has stored a pattern on an empty store and recall returns it.
LearnStoresPatternWitness ==
  /\ Len(log) = 1
  /\ log[1].op = "learn"
  /\ ~log[1].threw
  /\ LET r == RecallOf(log[1].agentId, PatternQuery, NoFails)
     IN /\ ~r.threw
        /\ Len(r.list) = 1
        /\ r.list[1].content.pattern = Some(<<"g">>)

\* C8, as stated: after remember returns, the memory is in the short-term
\* store, and it is in the long-term store if and only if a long-term tier
\* is configured.
WriteFanOut ==
  [][(WriteStep /\ ~Last(log').threw) =>
       /\ ShortTermHolds(Store', Last(log').memory, now')
       /\ LongTermHolds(Store', Last(log').memory) <=> config.longTerm]_vars

\* C8, amended: after remember returns, the memory is in the short-term
\* store; it is in the long-term store when a long-term tier is configured
\* and the long-term write did not fail, and it is not when none is configured.
WriteFanOutBestEffort ==
  [][(WriteStep /\ ~Last(log').threw) =>
       /\ ShortTermHolds(Store', Last(log').memory, now')
       /\ (config.longTerm /\ Last(log').longTerm # "failed")
            => LongTermHolds(Store', Last(log').memory)
       /\ ~config.longTerm => ~LongTermHolds(Store', Last(log').memory)]_vars

\* A remember has returned and its memory is in both stores.
WriteFanOutWitness ==
  \E i \in 1..Len(log) :
    /\ ~log[i].threw
    /\ log[i].longTerm = "written"
    /\ ShortTermHolds(Store, log[i].memory, now)
    /\ LongTermHolds(Store, log[i].memory)

\* The semantic: entries of a Map.
SemanticEntries(m) == SelectSeq(m, LAMBDA e : StartsWith(e.key, SemanticPrefix))

NonEmptyEmbedding(m) == IsSome(m.embedding) /\ Len(Val(m.embedding)) > 0

\* C9: remember writes the memory's semantic entry if and only if a semantic
\* tier is configured and the memory carries a non-empty embedding; a call
\* with no embedding or an empty one leaves the semantic entries as they were.
SemanticWrite ==
  [][WriteStep =>
       LET m == Last(log').memory
           key == SemanticKey(m.agentId, m.id)
       IN IF ~Last(log').threw /\ config.semantic /\ NonEmptyEmbedding(m)
          THEN /\ MapHas(cache', key)
               /\ MapGet(cache', key).embedding = m.embedding
               /\ MapGet(cache', key).metadata
                    = [id |-> m.id, type |-> m.type, confidence |-> m.confidence]
          ELSE SemanticEntries(cache') = SemanticEntries(cache)]_vars

\* Of two remembered memories one has a semantic entry and the other, whose
\* embedding is empty, has none.
SemanticWriteWitness ==
  /\ config.semantic
  /\ \E i, j \in 1..Len(log) :
       /\ NonEmptyEmbedding(log[i].memory)
       /\ MapHas(cache, SemanticKey(log[i].agentId, log[i].memory.id))
       /\ log[j].memory.embedding = Some(<<>>)
       /\ ~MapHas(cache, SemanticKey(log[j].agentId, log[j].memory.id))

\* C10: when the long-term write of a remember call fails, remember still
\* returns the id it assigned and the short-term record is there.
BestEffortWrite ==
  [][(WriteStep /\ Last(log').longTerm = "failed") =>
       /\ ~Last(log').threw
       /\ Last(log').returned = Some(Last(log').memory.id)
       /\ ShortTermHolds(Store', Last(log').memory, now')]_vars

\* A remember whose Supabase insert failed has returned, and its memory is in
\* the short-term store and not in the long-term store.
BestEffortWriteWitness ==
  \E i \in 1..Len(log) :
    /\ log[i].longTerm = "failed"
    /\ ~log[i].threw
    /\ ShortTermHolds(Store, log[i].memory, now)
    /\ ~LongTermHolds(Store, log[i].memory)

\* C11: recall never raises: whatever backend call fails, recall returns a list.
RecallNeverRaises ==
  \A agentId \in agents, query \in Queries, fails \in PossibleFails :
    ~RecallOf(agentId, query, fails).threw

\* Calls of forget a caller can make in a state; the delete request may fail.
ForgetOf(agentId, criteria, deleteFails) == forget(Store, agentId, criteria, deleteFails)
DeleteFails == {f \in BOOLEAN : f => config.supabase}

\* The criteria of the forgetting asymmetry: a type and a confidence bound.
TypeOrConfidence ==
  [olderThan |-> Undefined, type |-> Some("decision"), confidenceLessThan |-> Some(5)]

\* An in-process entry of the agent: a memory of the agent, or a semantic
\* entry or pattern counter under the agent's key prefix.
OwnedBy(e, agentId) ==
  IF "agentId" \in DOMAIN e.value THEN e.value.agentId = agentId
  ELSE \E prefix \in {SemanticPrefix, PatternPrefix} :
         StartsWith(e.key, prefix \o agentId \o Colon)

\* The entry's own timestamp, type or confidence meets a criterion given.
SatisfiesAny(value, criteria) ==
  \/ /\ criteria.olderThan # Undefined
     /\ IsDate(TimestampOf(value))
     /\ TimestampOf(value)[2] < Val(criteria.olderThan)[2]
  \/ criteria.type # Undefined /\ TypeOf(value) = criteria.type
  \/ /\ criteria.confidenceLessThan # Undefined
     /\ IsSome(ConfidenceOf(value))
     /\ Val(ConfidenceOf(value)) < Val(criteria.confidenceLessThan)

\* C12: forget(agent, criteria) deletes an in-process entry of the agent if
\* and only if the entry satisfies at least one criterion given.
ForgetInProcessAny ==
  \A agentId \in agents, criteria \in Criterias, deleteFails \in DeleteFails :
    \A k \in 1..Len(cache) :
      OwnedBy(cache[k], agentId) =>
        (MapHas(ForgetOf(agentId, criteria, deleteFails).store.cache, cache[k].key)
           <=> ~SatisfiesAny(cache[k].value, criteria))

\* A memory of type pattern and confidence 4 and a transaction of confidence
\* 10 are in the Map; forget with {type: decision, confidenceLessThan: 5}
\* deletes the first on its confidence alone and keeps the second.
ForgetInProcessAnyWitness ==
  \E i, j \in 1..Len(log) :
    LET low == MemoryKey(log[i].agentId, log[i].memory.id)
        high == MemoryKey(log[j].agentId, log[j].memory.id)
        after == ForgetOf(log[i].agentId, TypeOrConfidence, FALSE).store.cache
    IN /\ log[i].agentId = log[j].agentId
       /\ log[i].memory.type = "pattern" /\ log[i].memory.confidence = Some(4)
       /\ log[j].memory.type = "transaction" /\ log[j].memory.confidence = Some(10)
       /\ MapHas(cache, low) /\ MapHas(cache, high)
       /\ ~MapHas(after, low) /\ MapHas(after, high)

\* The row meets every criterion given.
SatisfiesAll(row, criteria) ==
  /\ criteria.olderThan # Undefined => row.created_at[2] < Val(criteria.olderThan)[2]
  /\ criteria.type # Undefined => row.memory_type = Val(criteria.type)
  /\ criteria.confidenceLessThan # Undefined =>
       IsSome(row.confidence) /\ Val(row.confidence) < Val(criteria.confidenceLessThan)

RowKept(after, row) == \E k \in 1..Len(after) : after[k] = row

\* C13, as stated: with a Supabase client, forget(agent, criteria) deletes a
\* row of the agent if and only if the row satisfies every criterion given.
ForgetLongTermAll ==
  config.supabase =>
    \A agentId \in agents, criteria \in Criterias, deleteFails \in DeleteFails :
      \A k \in 1..Len(rows) :
        rows[k].agent_id = agentId =>
          (RowKept(ForgetOf(agentId, criteria, deleteFails).store.rows, rows[k])
             <=> ~SatisfiesAll(rows[k], criteria))

\* C13, amended: with a Supabase client whose delete request succeeds,
\* forget(agent, criteria) deletes a row of the agent if and only if the row
\* satisfies every criterion given; when the request fails no row is deleted.
ForgetLongTermAllWhenDeleted ==
  config.supabase =>
    \A agentId \in agents, criteria \in Criterias :
      /\ \A k \in 1..Len(rows) :
           rows[k].agent_id = agentId =>
             (RowKept(ForgetOf(agentId, criteria, FALSE).store.rows, rows[k])
                <=> ~SatisfiesAll(rows[k], criteria))
      /\ ForgetOf(agentId, criteria, TRUE).store.rows = rows

\* Of two rows with confidence below 5 the delete for {type: decision,
\* confidenceLessThan: 5} removes the decision and keeps the pattern.
ForgetLongTermAllWitness ==
  /\ config.supabase
  /\ \E i, j \in 1..Len(rows) :
       LET after == ForgetOf(rows[i].agent_id, TypeOrConfidence, FALSE).store.rows
       IN /\ rows[i].agent_id = rows[j].agent_id
          /\ rows[i].memory_type = "pattern" /\ rows[i].confidence = Some(4)
          /\ rows[j].memory_type = "decision" /\ rows[j].confidence = Some(3)
          /\ RowKept(after, rows[i])
          /\ ~RowKept(after, rows[j])

\* The memory of a remember call is in a tier now.
StoredNow(m) == ShortTermHolds(Store, m, now) \/ LongTermHolds(Store, m)

BelowBound(confidence, criteria) ==
  /\ criteria.confidenceLessThan # Undefined
  /\ IsSome(confidence)
  /\ Val(confidence) < Val(criteria.confidenceLessThan)

\* What forget returns is the rows plus the in-process entries it removed.
CountIsSum(agentId, criteria, deleteFails) ==
  LET r == ForgetOf(agentId, criteria, deleteFails)
  IN r.count = (Len(rows) - Len(r.store.rows)) + (Len(cache) - Len(r.store.cache))

\* C14, as stated: forget returns the number of rows removed plus the number
\* of in-process entries removed, and the count is greater than 0 when a
\* stored memory of the agent has a confidence below confidenceLessThan.
ForgetCount ==
  \A agentId \in agents, criteria \in Criterias, deleteFails \in DeleteFails :
    /\ CountIsSum(agentId, criteria, deleteFails)
    /\ (\E i \in Stored(agentId) :
          StoredNow(log[i].memory) /\ BelowBound(log[i].memory.confidence, criteria))
         => ForgetOf(agentId, criteria, deleteFails).count > 0

\* C14, amended: forget returns the number of rows removed plus the number
\* of in-process entries removed, and the count is greater than 0 when a
\* memory of the agent in the in-process map has a confidence below
\* confidenceLessThan.
ForgetCountInProcess ==
  \A agentId \in agents, criteria \in Criterias, deleteFails \in DeleteFails :
    /\ CountIsSum(agentId, criteria, deleteFails)
    /\ (\E k \in 1..Len(cache) :
          /\ "agentId" \in DOMAIN cache[k].value
          /\ cache[k].value.agentId = agentId
          /\ BelowBound(cache[k].value.confidence, criteria))
         => ForgetOf(agentId, criteria, deleteFails).count > 0

\* A decision of confidence 3 is a row and an in-process entry, and forget
\* with {type: decision, confidenceLessThan: 5} returns 2.
ForgetCountWitness ==
  /\ config.supabase
  /\ \E i \in 1..Len(log) :
       /\ log[i].memory.type = "decision"
       /\ log[i].memory.confidence = Some(3)
       /\ LongTermHolds(Store, log[i].memory)
       /\ MapHas(cache, MemoryKey(log[i].agentId, log[i].memory.id))
       /\ ForgetOf(log[i].agentId, TypeOrConfidence, FALSE).count = 2

\* Calls of getStats a caller can make in a state.
StatsOf(agentId, fails) == getStats(Store, agentId, now, fails)

\* The memories in the agent's short-term store.
ShortTermSize(agentId) ==
  IF config.redis
  THEN Cardinality({e \in redisKV :
                      Live(e, now) /\ StartsWith(e.key, MemoryPrefix \o agentId \o Colon)})
  ELSE Cardinality({k \in 1..Len(cache) :
                      StartsWith(cache[k].key, MemoryPrefix \o agentId \o Colon)})

\* C15: getStats(agent).shortTermCount is the number of memories in the
\* agent's short-term store; in degraded mode, after a remember for the
\* agent and before any expiry, it is greater than 0.
ShortTermCounted ==
  \A agentId \in agents :
    LET r == StatsOf(agentId, NoFails)
    IN /\ ~r.threw
       /\ r.stats.shortTermCount = ShortTermSize(agentId)
       /\ (~config.redis /\ undisturbed /\ Stored(agentId) # {})
            => r.stats.shortTermCount > 0

\* The pattern aggregates of the agent: rows with a Supabase client, pattern:
\* counters of the Map without one.
PatternAggregates(agentId) ==
  IF config.supabase
  THEN Cardinality({r \in patternRows : r.agent_id = agentId})
  ELSE Cardinality({k \in 1..Len(cache) :
                      StartsWith(cache[k].key, PatternPrefix \o agentId \o Colon)})

\* C16: getStats(agent).patterns is the number of pattern aggregates of the
\* agent, in the persistent backend or in the in-process counters.
PatternsCounted ==
  \A agentId \in agents :
    LET r == StatsOf(agentId, NoFails)
    IN ~r.threw /\ r.stats.patterns = PatternAggregates(agentId)

\* C17: whenever the agent has no pattern row, getStats(agent).avgConfidence
\* is 0 and not NaN, in every configuration; the zero rows raise no error (a
\* call rejects only when redis.llen does).
AvgConfidenceGuarded ==
  \A agentId \in agents, fails \in PossibleFails :
    (\A p \in patternRows : p.agent_id # agentId) =>
      /\ StatsOf(agentId, fails).threw => fails.redis
      /\ ~StatsOf(agentId, fails).threw =>
           StatsOf(agentId, fails).stats.avgConfidence = Number(0)

\* With a Supabase client and memories stored, the agent has no pattern row
\* and getStats returns avgConfidence 0.
AvgConfidenceGuardedWitness ==
  /\ config.supabase
  /\ rows # <<>>
  /\ patternRows = {}
  /\ \E agentId \in agents :
       /\ ~StatsOf(agentId, NoFails).threw
       /\ StatsOf(agentId, NoFails).stats.longTermCount > 0
       /\ StatsOf(agentId, NoFails).stats.avgConfidence = Number(0)

\* The ttl of the memory has elapsed and its setTimeout callback has run.
TimerFired(m) ==
  /\ now >= m.timestamp[2] + TtlSeconds * MsPerSecond
  /\ \A timer \in timers : timer.key # MemoryKey(m.agentId, m.id)

\* C18, as stated: in degraded mode a memory whose ttl has elapsed and whose
\* expiry timer has fired is absent from every recall result.
TtlExpiry ==
  ~config.redis =>
    \A agentId \in agents, query \in Queries, fails \in PossibleFails :
      \A i \in Stored(agentId) :
        (TimerFired(log[i].memory) /\ ~RecallOf(agentId, query, fails).threw) =>
          Occurrences(RecallOf(agentId, query, fails).list, log[i].memory.id) = {}

\* C18, amended: in degraded mode a memory whose ttl has elapsed and whose
\* expiry timer has fired is absent from what the short-term tier gives, and
\* from every recall result when no long-term tier is configured.
TtlExpiryShortTerm ==
  ~config.redis =>
    \A agentId \in agents, query \in Queries, fails \in PossibleFails :
      \A i \in Stored(agentId) :
        TimerFired(log[i].memory) =>
          /\ Occurrences(queryShortTerm(Store, agentId, query, now, fails.redis).list,
                         log[i].memory.id) = {}
          /\ (~config.longTerm /\ ~RecallOf(agentId, query, fails).threw) =>
               Occurrences(RecallOf(agentId, query, fails).list, log[i].memory.id) = {}

\* Of two memories the timer of the older has fired: recall returns the
\* younger and not the older.
TtlExpiryWitness ==
  /\ ~config.redis
  /\ ~config.longTerm
  /\ \E i, j \in 1..Len(log) :
       LET r == RecallOf(log[i].agentId, NoQuery, NoFails)
       IN /\ log[i].agentId = log[j].agentId
          /\ ~log[i].threw
          /\ TimerFired(log[i].memory)
          /\ ~r.threw
          /\ Occurrences(r.list, log[i].memory.id) = {}
          /\ Occurrences(r.list, log[j].memory.id) # {}

\* C19: at most maxItems memories of an agent are visible through the
\* short-term tier, with the Redis index and with the in-process map.
BoundedIndex ==
  \A agentId \in agents :
    Len(queryShortTerm(Store, agentId, NoQuery, now, FALSE).list) <= config.maxItems

\* C20: once the Redis client has reported a connection error, a short-term
\* write goes to the in-process map and not to Redis, and does not raise.
DegradedSwitch ==
  [][(config.provider = "memory" /\ WriteStep) =>
       /\ ~Last(log').threw
       /\ redisKV' = redisKV
       /\ redisLists' = redisLists
       /\ MapHas(cache', MemoryKey(Last(log').agentId, Last(log').memory.id))]_vars

\* C21: remember called with a malformed payload fails with an error and
\* stores nothing in any tier.
InputValidated ==
  \A agentId \in agents, payload \in MalformedPayloads, random \in RandomTexts :
    LET r == remember(Store, agentId, payload, now, random, 0, TRUE)
    IN r.threw /\ r.store = Store

\* The learn calls of the history that reached updatePattern for the
\* signature, and those of them that were successes.
LearnEvents(agentId, pattern) ==
  {i \in 1..Len(log) :
     /\ log[i].op = "learn" /\ log[i].agentId = agentId /\ ~log[i].threw
     /\ Val(log[i].outcome).pattern = Some(pattern)}
LearnSuccesses(agentId, pattern) ==
  {i \in LearnEvents(agentId, pattern) : Val(log[i].outcome).success}

PatternSignatures == {Val(o.pattern) : o \in {x \in Outcomes : IsSome(x.pattern)}}

\* C22: after n learning events for one (agent, signature), s of them
\* successes, and before any forget or close, the aggregate of the pair has
\* frequency n and success count s, as a row and as an in-process counter.
PatternAdditive ==
  undisturbed =>
    \A agentId \in agents, pattern \in PatternSignatures :
      LearnEvents(agentId, pattern) # {} =>
        IF config.supabase
        THEN \E r \in patternRows :
               /\ r.agent_id = agentId /\ r.pattern_signature = pattern
               /\ r.frequency = Cardinality(LearnEvents(agentId, pattern))
        ELSE /\ MapHas(cache, PatternKey(agentId, pattern))
             /\ MapGet(cache, PatternKey(agentId, pattern)).frequency
                  = Cardinality(LearnEvents(agentId, pattern))
             /\ MapGet(cache, PatternKey(agentId, pattern)).successes
                  = Cardinality(LearnSuccesses(agentId, pattern))

\* C23: recall(A, q) returns only memories stored for agent A, also when
\* one agent id is a prefix of another.
ReadIsolation ==
  \A agentId \in agents, query \in Queries, fails \in PossibleFails :
    LET r == RecallOf(agentId, query, fails)
    IN ~r.threw =>
         \A k \in 1..Len(r.list) :
           "agentId" \in DOMAIN r.list[k] => r.list[k].agentId = agentId

\* C24: forget(A, criteria) leaves every in-process memory of another agent
\* and every long-term row of another agent as it was.
ForgetIsolation ==
  \A agentId \in agents, criteria \in Criterias, deleteFails \in DeleteFails :
    LET after == ForgetOf(agentId, criteria, deleteFails).store
    IN /\ \A k \in 1..Len(cache) :
            ("agentId" \in DOMAIN cache[k].value /\ cache[k].value.agentId # agentId) =>
              /\ MapHas(after.cache, cache[k].key)
              /\ MapGet(after.cache, cache[k].key) = cache[k].value
       /\ \A k \in 1..Len(rows) :
            rows[k].agent_id # agentId => RowKept(after.rows, rows[k])

\* The Map a manager without a Redis client holds after the remember calls
\* of the history: inMemoryCache.set(key, memory) for each.
RECURSIVE MapReplay(_)
MapReplay(n) ==
  IF n = 0 THEN <<>>
  ELSE IF log[n].threw THEN MapReplay(n - 1)
  ELSE MapSet(MapReplay(n - 1), MemoryKey(log[n].agentId, log[n].memory.id), log[n].memory)

\* What recall gives that manager when only the short-term tier is configured.
InProcessRecall(agentId, query) ==
  LET unique ==
        deduplicateMemories(
          Values(SelectSeq(MapReplay(Len(log)),
                   LAMBDA e : StartsWith(e.key, MemoryPrefix \o agentId \o Colon)
                              /\ matchesQuery(e.value, query))))
  IN IF SortThrows(unique) THEN [threw |-> TRUE, list |-> <<>>]
     ELSE [threw |-> FALSE, list |-> sortByTimestamp(unique)]

\* C25: for the same remember calls, within ttl and capacity, recall with
\* the Redis client gives what recall with the in-process map gives: the same
\* success or failure, the same memories, the same field values.
ShortTermTransparent ==
  (config.redis /\ ~config.longTerm /\ ~config.semantic /\ undisturbed
     /\ Len(log) <= config.maxItems) =>
    \A agentId \in agents, query \in Queries :
      RecallOf(agentId, query, NoFails) = InProcessRecall(agentId, query)

\* C26, as stated: in degraded mode close() completes without error, also on
\* a closed manager, the in-process store is empty after it and recall
\* returns an empty list for every agent.
CloseEmpties ==
  ~config.redis =>
    LET once == close(Store, FALSE)
        twice == close(once.store, FALSE)
    IN /\ ~once.threw /\ once.store.cache = <<>>
       /\ ~twice.threw /\ twice.store.cache = <<>>
       /\ \A agentId \in agents, query \in Queries, fails \in PossibleFails :
            recall(once.store, agentId, query, now, fails) = [threw |-> FALSE, list |-> <<>>]

\* C26, amended: in degraded mode close() completes without error, also on a
\* closed manager, and the in-process store is empty after it; recall returns
\* an empty list for every agent when there is no Supabase client.
CloseEmptiesInProcess ==
  ~config.redis =>
    LET once == close(Store, FALSE)
        twice == close(once.store, FALSE)
    IN /\ ~once.threw /\ once.store.cache = <<>>
       /\ ~twice.threw /\ twice.store.cache = <<>>
       /\ ~config.supabase =>
            \A agentId \in agents, query \in Queries, fails \in PossibleFails :
              recall(once.store, agentId, query, now, fails)
                = [threw |-> FALSE, list |-> <<>>]

\* A manager without clients holds memories recall returns; after close()
\* the Map is empty and recall returns nothing.
CloseEmptiesWitness ==
  /\ ~config.redis
  /\ ~config.supabase
  /\ cache # <<>>
  /\ \E agentId \in agents :
       /\ RecallOf(agentId, NoQuery, NoFails).list # <<>>
       /\ recall(close(Store, FALSE).store, agentId, NoQuery, now, NoFails).list = <<>>

\* The instant of a timestamp, a Date or the ISO string of one.
Instant(timestamp) == timestamp[2]

\* C27: recall(agent, {since: s}) returns no memory whose timestamp is
\* before s, and returns the memories of the in-process short-term store
\* whose timestamp is s or later.
SinceInclusive ==
  \A agentId \in agents, query \in Queries, fails \in PossibleFails :
    LET r == RecallOf(agentId, query, fails)
    IN (query.since # Undefined /\ ~r.threw) =>
         /\ \A k \in 1..Len(r.list) :
              "timestamp" \in DOMAIN r.list[k] =>
                Instant(r.list[k].timestamp) >= Instant(Val(query.since))
         /\ (~config.redis /\ query.type = Undefined /\ query.limit = Undefined) =>
              \A k \in 1..Len(cache) :
                (/\ StartsWith(cache[k].key, MemoryPrefix \o agentId \o Colon)
                 /\ Instant(cache[k].value.timestamp) >= Instant(Val(query.since)))
                  => Occurrences(r.list, cache[k].value.id) # {}

\* What one recall gathers in the current state, what its short-term query
\* gives, and what a long-term query would give.
GatheredOf(agentId, query, fails) == Gathered(Store, agentId, query, now, fails)
ShortTermOf(agentId, query) == queryShortTerm(Store, agentId, query, now, FALSE).list
LongTermOf(agentId, query, fails) == queryLongTerm(Store, agentId, query, fails.supabase)
SemanticOf(agentId, query) == querySemanticMemory(Store, agentId, query)

\* The entries of a gathered list that are memories, and those that are
\* entries of the semantic store (they carry no id of their own).
MemoriesIn(list) == SelectSeq(list, LAMBDA e : "id" \in DOMAIN e)
SemanticIn(list) == SelectSeq(list, LAMBDA e : "id" \notin DOMAIN e)

ReadFails == {f \in PossibleFails : ~f.redis}

\* C28: within one recall the long-term tier is queried, and its results
\* follow the short-term ones, if and only if the short-term query gave
\* fewer than limit (10 when absent) results and a long-term tier is
\* configured.
SufficiencyGating ==
  \A agentId \in agents, query \in Queries, fails \in ReadFails :
    MemoriesIn(GatheredOf(agentId, query, fails))
      = IF Len(ShortTermOf(agentId, query)) < LimitOf(query) /\ config.longTerm
        THEN ShortTermOf(agentId, query) \o LongTermOf(agentId, query, fails)
        ELSE ShortTermOf(agentId, query)

LimitOne == [NoQuery EXCEPT !.limit = Some(1)]

\* The short-term tier gives limit results and the long-term tier holds a
\* memory the short-term tier has lost: it is not gathered with limit 1, and
\* is gathered with the default limit.
SufficiencyGatingWitness ==
  /\ config.longTerm
  /\ \E agentId \in agents :
       /\ Len(ShortTermOf(agentId, LimitOne)) >= 1
       /\ \E k \in 1..Len(LongTermOf(agentId, LimitOne, NoFails)) :
            Occurrences(ShortTermOf(agentId, LimitOne),
                        LongTermOf(agentId, LimitOne, NoFails)[k].id) = {}
       /\ GatheredOf(agentId, LimitOne, NoFails) = ShortTermOf(agentId, LimitOne)
       /\ Len(GatheredOf(agentId, NoQuery, NoFails)) > Len(ShortTermOf(agentId, NoQuery))

\* C29: within one recall the semantic tier is queried, and its entries end
\* the gathered list, if and only if the query type is 'pattern' and a
\* semantic tier is configured, whatever the other tiers gave.
SemanticGating ==
  \A agentId \in agents, query \in Queries, fails \in ReadFails :
    SemanticIn(GatheredOf(agentId, query, fails))
      = IF query.type = Some("pattern") /\ config.semantic
        THEN SemanticOf(agentId, query) ELSE <<>>

PatternLimitOne == [PatternQuery EXCEPT !.limit = Some(1)]

\* The short-term tier alone gives limit results for a pattern query and the
\* semantic entries are gathered all the same; a query without type gathers none.
SemanticGatingWitness ==
  /\ config.semantic
  /\ \E agentId \in agents :
       /\ Len(ShortTermOf(agentId, PatternLimitOne)) >= 1
       /\ SemanticOf(agentId, PatternLimitOne) # <<>>
       /\ SemanticIn(GatheredOf(agentId, PatternLimitOne, NoFails))
            = SemanticOf(agentId, PatternLimitOne)
       /\ SemanticIn(GatheredOf(agentId, NoQuery, NoFails)) = <<>>

\* The first entry of list that carries the id.
FirstWithId(list, id) == list[CHOOSE j \in 1..Len(list) :
                               /\ IdOf(list[j]) = id
                               /\ \A i \in 1..(j - 1) : IdOf(list[i]) # id]

\* C30: of the entries of one id that the tiers gave in the order short-term,
\* long-term, semantic, deduplication keeps the first and drops the others.
TierAuthority ==
  \A agentId \in agents, query \in Queries, fails \in ReadFails :
    LET g == GatheredOf(agentId, query, fails)
        unique == deduplicateMemories(g)
        r == RecallOf(agentId, query, fails)
    IN /\ \A k \in 1..Len(unique) : unique[k] = FirstWithId(g, IdOf(unique[k]))
       /\ \A j \in 1..Len(g) : \E k \in 1..Len(unique) : IdOf(unique[k]) = IdOf(g[j])
       /\ ~r.threw =>
            \A k \in 1..Len(r.list) : r.list[k] = FirstWithId(g, IdOf(r.list[k]))

\* The short-term and the long-term tier give entries of one id that differ,
\* and recall returns the short-term one.
TierAuthorityWitness ==
  \E agentId \in agents :
    LET shortTerm == ShortTermOf(agentId, NoQuery)
        longTerm == LongTermOf(agentId, NoQuery, NoFails)
        r == RecallOf(agentId, NoQuery, NoFails)
    IN /\ ~r.threw
       /\ \E j \in 1..Len(shortTerm), k \in 1..Len(longTerm) :
            /\ shortTerm[j].id = longTerm[k].id
            /\ shortTerm[j] # longTerm[k]
            /\ \E i \in 1..Len(r.list) : r.list[i] = shortTerm[j]
            /\ \A i \in 1..Len(r.list) : r.list[i] # longTerm[k]

\* Two remember calls of the history issued at the same instant: the calls
\* of a Promise.all batch. One call after the other is one of their
\* interleavings.
Concurrent(i, j) ==
  /\ i < j
  /\ log[i].agentId = log[j].agentId
  /\ ~log[i].threw /\ ~log[j].threw
  /\ log[i].memory.timestamp = log[j].memory.timestamp

\* C31: when two remember calls for the same agent run concurrently, then
\* after both have returned, and while capacity and ttl allow, both memories
\* are in the agent's short-term store and both are returned by recall.
NoLostUpdate ==
  \A i \in 1..Len(log), j \in 1..Len(log) :
    (Concurrent(i, j) /\ undisturbed /\ Len(log) <= config.maxItems) =>
      LET r == RecallOf(log[i].agentId, NoQuery, NoFails)
      IN /\ ShortTermHolds(Store, log[i].memory, now)
         /\ ShortTermHolds(Store, log[j].memory, now)
         /\ ~r.threw
         /\ \E k \in Occurrences(r.list, log[i].memory.id) :
              SameFields(r.list[k], log[i].memory)
         /\ \E k \in Occurrences(r.list, log[j].memory.id) :
              SameFields(r.list[k], log[j].memory)

\* A step in which the setTimeout callback of timer runs.
Fires(timer) == timer \in timers /\ timers' = timers \ {timer} /\ log' = log

\* C32: an expiry timer that fires after forget or close has removed its
\* entry removes no entry and changes no store and no statistic; a timer
\* whose entry is still there removes that entry and no other.
TimerHarmless ==
  [][\A timer \in timers :
       Fires(timer) =>
         /\ cache' = SelectSeq(cache, LAMBDA e : e.key # timer.key)
         /\ ~MapHas(cache, timer.key) =>
              /\ Store' = [Store EXCEPT !.timers = timers']
              /\ \A agentId \in agents :
                   /\ getStats(Store', agentId, now', NoFails) = StatsOf(agentId, NoFails)
                   /\ recall(Store', agentId, NoQuery, now', NoFails)
                        = RecallOf(agentId, NoQuery, NoFails)]_vars

\* A timer is due whose entry forget or close has removed, while the Map
\* holds another memory.
TimerHarmlessWitness ==
  \E timer \in timers :
    /\ timer.at <= now
    /\ ~MapHas(cache, timer.key)
    /\ \E k \in 1..Len(cache) : StartsWith(cache[k].key, MemoryPrefix)

\* Every short-term entry expires ttl seconds after the timestamp it was
\* written with: the Redis key by its expiry, the Map entry by its timer.
ExpiresAsWritten ==
  /\ \A e \in redisKV :
       e.exp = Some(Instant(e.val.timestamp) + TtlSeconds * MsPerSecond)
  /\ \A timer \in timers :
       MapHas(cache, timer.key) =>
         timer.at = Instant(MapGet(cache, timer.key).timestamp) + TtlSeconds * MsPerSecond

\* C33: recall and getStats leave every stored entry, every pattern counter
\* and every expiry time as they are, and an entry expires ttl seconds after
\* it was written however often it is read.
ReadsHaveNoEffect ==
  /\ []ExpiresAsWritten
  /\ [][(Recall \/ GetStats) =>
          UNCHANGED <<cache, redisKV, redisLists, rows, patternRows, timers>>]_vars

\* Some time after it was written a memory is still in the short-term store,
\* and recall and getStats read it.
ReadsHaveNoEffectWitness ==
  \E i \in 1..Len(log) :
    /\ ~log[i].threw
    /\ now > Instant(log[i].memory.timestamp)
    /\ ShortTermHolds(Store, log[i].memory, now)
    /\ ~RecallOf(log[i].agentId, NoQuery, NoFails).threw
    /\ Occurrences(RecallOf(log[i].agentId, NoQuery, NoFails).list, log[i].memory.id) # {}
    /\ ~StatsOf(log[i].agentId, NoFails).threw

\* The in-process pattern counters of a Map, in its order.
PatternCounters(map) == SelectSeq(map, LAMBDA e : StartsWith(e.key, PatternPrefix))

\* C34: for every criteria, the in-process pattern counters and the pattern
\* rows are the same after forget as before it.
ForgetKeepsPatterns ==
  \A agentId \in agents, criteria \in Criterias, deleteFails \in DeleteFails :
    LET after == ForgetOf(agentId, criteria, deleteFails).store
    IN /\ PatternCounters(after.cache) = PatternCounters(cache)
       /\ after.patternRows = patternRows

\* The Map holds a pattern counter of an agent, and a forget of that agent
\* removes a memory.
ForgetKeepsPatternsWitness ==
  \E agentId \in agents, criteria \in Criterias :
    /\ \E k \in 1..Len(cache) :
         StartsWith(cache[k].key, PatternPrefix \o agentId \o Colon)
    /\ Len(ForgetOf(agentId, criteria, FALSE).store.cache) < Len(cache)

\* C35: with a long-term tier configured, a memory remember stored there is
\* returned by recall after its short-term ttl has elapsed, for as long as
\* no forget has removed it from the long-term tier.
LongTermRetrievable ==
  config.longTerm =>
    \A i \in 1..Len(log) :
      (/\ ~log[i].threw
       /\ LongTermHolds(Store, log[i].memory)
       /\ now >= Instant(log[i].memory.timestamp) + TtlSeconds * MsPerSecond) =>
        LET r == RecallOf(log[i].agentId, NoQuery, NoFails)
        IN ~r.threw /\ Occurrences(r.list, log[i].memory.id) # {}

\* The criteria of forget that name at least one criterion.
GivenCriterias ==
  {criteria \in Criterias :
     \/ criteria.olderThan # Undefined
     \/ criteria.type # Undefined
     \/ criteria.confidenceLessThan # Undefined}

\* The recalled memory meets every criterion given.
MemorySatisfiesAll(memory, criteria) ==
  /\ criteria.olderThan # Undefined =>
       Instant(TimestampOf(memory)) < Instant(Val(criteria.olderThan))
  /\ criteria.type # Undefined => TypeOf(memory) = criteria.type
  /\ criteria.confidenceLessThan # Undefined =>
       BelowBound(ConfidenceOf(memory), criteria)

\* C36: after forget(agent, criteria) with at least one criterion has
\* returned, recall(agent) returns no memory that satisfies every criterion
\* given, with the in-process map, with Redis, with a long-term backend and
\* with the semantic tier.
ForgetEffective ==
  \A agentId \in agents, criteria \in GivenCriterias :
    LET after == ForgetOf(agentId, criteria, FALSE).store
        r == recall(after, agentId, NoQuery, now, NoFails)
    IN ~r.threw =>
         \A k \in 1..Len(r.list) :
           "id" \in DOMAIN r.list[k] => ~MemorySatisfiesAll(r.list[k], criteria)

\* The record carries the id, type and timestamp of a memory that remember
\* stored for the agent.
StoredRecord(entry, agentId) ==
  \E i \in Stored(agentId) :
    /\ IdOf(entry) = Some(log[i].memory.id)
    /\ TypeOf(entry) = Some(log[i].memory.type)
    /\ TimestampOf(entry) # Undefined
    /\ Instant(TimestampOf(entry)) = Instant(log[i].memory.timestamp)

\* C37: recall completes, every record of its result carries the id, type
\* and timestamp of a memory remember stored for the agent, whichever tier it
\* came from, and memories with distinct ids stay distinct in the result.
RecallRecordsStored ==
  \A agentId \in agents, query \in {NoQuery, PatternQuery} :
    LET r == RecallOf(agentId, query, NoFails)
        short == queryShortTerm(Store, agentId, query, now, FALSE)
    IN /\ ~r.threw
       /\ \A k \in 1..Len(r.list) : StoredRecord(r.list[k], agentId)
       /\ \A k \in 1..Len(short.list) : Occurrences(r.list, short.list[k].id) # {}

\* forget(agent, {}): no criterion given.
NoCriteria ==
  [olderThan |-> Undefined, type |-> Undefined, confidenceLessThan |-> Undefined]

\* C38: forget(agent, {}) removes no in-process entry and no long-term row
\* and returns 0.
ForgetNothing ==
  \A agentId \in agents, deleteFails \in DeleteFails :
    LET r == ForgetOf(agentId, NoCriteria, deleteFails)
    IN /\ r.count = 0
       /\ r.store.cache = cache
       /\ r.store.rows = rows

\* The ids of the memories that are in the stores before a forget and in no
\* row and no in-process entry of the stores after it.
RemovedIds(after) ==
  {rows[k].id : k \in {j \in 1..Len(rows) : ~RowKept(after.rows, rows[j])}}
    \cup {cache[k].value.id :
            k \in {j \in 1..Len(cache) :
                     "id" \in DOMAIN cache[j].value /\ ~MapHas(after.cache, cache[j].key)}}

\* C39: the count forget returns is at most the number of distinct memory
\* ids the call removed; a memory held as a short-term entry and as a
\* long-term entry counts once.
ForgetCountDistinct ==
  \A agentId \in agents, criteria \in Criterias, deleteFails \in DeleteFails :
    LET r == ForgetOf(agentId, criteria, deleteFails)
    IN r.count <= Cardinality(RemovedIds(r.store))

\* C40: without a Supabase client every in-process pattern counter has
\* 1 <= frequency and 0 <= successes <= frequency in every reachable state,
\* and until close clears the Map no step removes a counter or lowers its
\* frequency or its successes.
PatternCountersSound ==
  /\ [](~config.supabase =>
          \A k \in 1..Len(PatternCounters(cache)) :
            LET counter == PatternCounters(cache)[k].value
            IN /\ 1 <= counter.frequency
               /\ 0 <= counter.successes
               /\ counter.successes <= counter.frequency)
  /\ [][\A k \in 1..Len(PatternCounters(cache)) :
          LET e == PatternCounters(cache)[k]
          IN cache' # <<>> =>
               /\ MapHas(cache', e.key)
               /\ MapGet(cache', e.key).frequency >= e.value.frequency
               /\ MapGet(cache', e.key).successes >= e.value.successes]_vars

\* A counter that a successful and a failed outcome of the same pattern have
\* updated: frequency 2, successes 1.
PatternCountersSoundWitness ==
  /\ ~config.supabase
  /\ \E k \in 1..Len(PatternCounters(cache)) :
       /\ PatternCounters(cache)[k].value.frequency = 2
       /\ PatternCounters(cache)[k].value.successes = 1
====
